---- MODULE Spec2Model ----
(***************************************************************************)
(* Model of the POS backend (ruo-edwin/POS-1.0): registration and the      *)
(* login-time subscription gate (routers/auth.py), the superadmin          *)
(* subscription console (routers/superadmin.py), the product catalog       *)
(* (routers/product.py, backend/models.py) and order/sales recording       *)
(* (routers/sales.py).                                                     *)
(*                                                                         *)
(* Every handler is one action: it reads the committed store, computes     *)
(* what the handler computes in its SQLAlchemy session, and writes what    *)
(* the handler has committed by the time the response leaves.  A session   *)
(* that is closed without commit (backend/db.py: autocommit=False,         *)
(* get_db closes the session in "finally") discards its pending changes.   *)
(*                                                                         *)
(* Time is counted in minutes.  Money and quantities are integers.         *)
(***************************************************************************)
EXTENDS Integers, Sequences, FiniteSets

VARIABLES
    now,            \* datetime.utcnow(), in minutes
    business,       \* table "business": sequence of rows, index = id
    users,          \* table "users": sequence of rows, index = id
    subscriptions,  \* table "subscriptions": sequence of rows, index = id
    tokens,         \* the access tokens issued (their claims), while a
                    \* client may still hold them
    token_blacklist,\* auth_utils.token_blacklist
    products,       \* table "products": sequence of rows, index = id
    orders,         \* table "orders": sequence of rows, index = id
    sales,          \* table "sales": set of rows, each with its id
    sales_next_id,  \* AUTO_INCREMENT counter of table "sales"
    events,         \* table "onboarding_events": sequence of rows, index = id
    threads,        \* the requests in progress, one per threadpool thread:
                    \* where the handler stands and its local variables
    res             \* the last request handled and the response to it

vars == <<now, business, users, subscriptions, tokens, token_blacklist,
          products, orders, sales, sales_next_id, events, threads, res>>

authVars == <<business, users, subscriptions, tokens, token_blacklist>>
shopVars == <<products, orders, sales, sales_next_id, events>>

(***************************************************************************)
(* Bounds of the model.                                                    *)
(***************************************************************************)
MaxNow      == 30   \* the clock stops after this many days
MaxProducts == 2    \* rows of table products
MaxOrders   == 2    \* rows of table orders
MaxQty      == 2    \* largest stock quantity a catalog request writes
MaxPrice    == 2    \* largest price a request names
MaxItems    == 2    \* line items of one sale request

(***************************************************************************)
(* Program constants.                                                      *)
(***************************************************************************)
TrialDays    == 7
ActivateDays == 30
RenewDays    == 30
ACCESS_TOKEN_EXPIRE_MINUTES == 30

\* timedelta(days=1), in minutes
Day == 24 * 60

\* A nullable column: None is the empty sequence, a value v is <<v>>.
None    == << >>
Some(v) == <<v>>

\* users.business_id of the business-less superadmin (NULL)
NoBusiness == 0

Usernames == {"u1", "u2"}
Emails    == {"e1", "e2"}
SuperName == "root"
Names     == {"w", "g"}
Prices    == 1..MaxPrice
StockQtys == 0..MaxQty
SaleQtys  == 1..MaxQty
TickSteps == {TrialDays * Day, ActivateDays * Day}
MaxEnd    == (MaxNow + RenewDays) * Day

\* FastAPI runs the routes, plain `def` functions, on threads of a pool:
\* two requests can be in progress at once.  A thread that handles no
\* request is Idle.
Threads == {1, 2}
Idle    == [pc |-> "idle"]

\* Query.first(), given the ids of the rows that satisfy the filter: the
\* least id, or None.
First(hits) ==
    IF hits = {} THEN None
    ELSE Some(CHOOSE i \in hits : \A j \in hits : i <= j)

----------------------------------------------------------------------------
(***************************************************************************)
(* Initial state: empty tables, and the seeded superadmin user.            *)
(***************************************************************************)
Init ==
    /\ now = 0
    /\ business = << >>
    /\ users = << [username |-> SuperName, business_id |-> NoBusiness,
                   role |-> "superadmin"] >>
    /\ subscriptions = << >>
    /\ tokens = {}
    /\ token_blacklist = {}
    /\ products = << >>
    /\ orders = << >>
    /\ sales = {}
    /\ sales_next_id = 1
    /\ events = << >>
    /\ threads = [t \in Threads |-> Idle]
    /\ res = [op |-> "init", status |-> "ok"]

\* create_access_token: the claims login_user and register_business put
\* into the token of user row u with id uid, and the expiry claim
\* (expires_delta is timedelta(minutes=ACCESS_TOKEN_EXPIRE_MINUTES) at every
\* call)
create_access_token(uid, u) ==
    [user_id |-> uid, username |-> u.username,
     business_id |-> u.business_id, role |-> u.role,
     exp |-> now + ACCESS_TOKEN_EXPIRE_MINUTES]

\* The clock advances by days between requests.  Every token issued before
\* is then past its expiry and past the max_age of its cookie, and no
\* client holds it any longer.
Tick ==
    /\ \A t \in Threads : threads[t] = Idle
    /\ \E d \in TickSteps :
          /\ now + d <= MaxNow * Day
          /\ now' = now + d
    /\ tokens' = {t \in tokens : t.exp >= now'}
    /\ UNCHANGED <<business, users, subscriptions, token_blacklist,
                   shopVars, threads, res>>

\* Minutes pass within the day; every client keeps the token it holds.
WaitMinutes == 20
MaxWaits    == 2

Wait ==
    /\ (now % Day) + WaitMinutes <= MaxWaits * WaitMinutes
    /\ now' = now + WaitMinutes
    /\ UNCHANGED <<authVars, shopVars, threads, res>>

----------------------------------------------------------------------------
\* The schedule the model explores: the catalog is set up while no order
\* exists, and selling starts from one of two catalogs.  In the first,
\* business 1 stocks "w" (buying price 2) and "g" (no buying price); in the
\* second, business 1 stocks "w" and business 2 stocks "g".
OpeningCatalogs ==
    { << [name |-> "w", business_id |-> 1, price |-> 2,
          buying_price |-> Some(2), quantity |-> 2],
         [name |-> "g", business_id |-> 1, price |-> 2,
          buying_price |-> None, quantity |-> 1] >>,
      << [name |-> "w", business_id |-> 1, price |-> 2,
          buying_price |-> Some(2), quantity |-> 2],
         [name |-> "g", business_id |-> 2, price |-> 1,
          buying_price |-> Some(1), quantity |-> 2] >> }

SetUp    == orders = << >>
ShopOpen == orders # << >> \/ products \in OpeningCatalogs

----------------------------------------------------------------------------
(***************************************************************************)
(* backend/auth_utils.py and the request middleware of backend/main.py     *)
(*                                                                         *)
(* A request carries the cookie access_token (None when it has none) and   *)
(* an Accept header.  A token is correctly signed when the server issued   *)
(* it.                                                                     *)
(***************************************************************************)
Accepts == {"text/html", "application/json",
            "application/json, text/plain, */*"}

\* The requests a client can send
Requests == [token : {None} \cup {Some(t) : t \in tokens}, accept : Accepts]

\* auth_utils.blacklist_token
blacklist_token(token) ==
    /\ token_blacklist' = token_blacklist \cup {token}
    /\ res' = [op |-> "blacklist_token", status |-> "ok", token |-> token]
    /\ UNCHANGED <<threads, now, business, users, subscriptions, tokens, shopVars>>

\* jwt.decode(token, SECRET_KEY, algorithms=[ALGORITHM]) returns the claims:
\* the signature verifies and the exp claim is not in the past
jwt_decode(token) == token \in tokens /\ token.exp >= now

\* '"application/json" in request.headers.get("accept", "")'
AcceptHasJson(accept) ==
    accept \in {"application/json", "application/json, text/plain, */*"}

\* 'request.headers.get("accept") == "application/json"' (no route of the
\* application has a path that starts with /api)
AcceptIsJson(accept) == accept = "application/json"

MiddlewarePassesAll(req) == "pass"

\* main.redirect_or_json_on_unauthorized on a path that is not public:
\* "pass" when it calls the route, else the response it returns itself
redirect_or_json_on_unauthorized(req) ==
    IF req.token = None \/ ~jwt_decode(req.token[1])
      THEN IF AcceptHasJson(req.accept) THEN "401" ELSE "redirect"
      ELSE "pass"

VerifyChecksSubscription(req) ==
    IF /\ req.token # None
       /\ req.token[1] \notin token_blacklist
       /\ jwt_decode(req.token[1])
       /\ ~\E i \in DOMAIN subscriptions :
              /\ subscriptions[i].business_id = req.token[1].business_id
              /\ \/ subscriptions[i].status \in {"suspended", "expired"}
                 \/ subscriptions[i].end_date < now
      THEN [kind |-> "payload", claims |-> req.token[1]]
    ELSE IF AcceptIsJson(req.accept)
      THEN [kind |-> "raise_401"]
      ELSE [kind |-> "redirect_object"]

\* auth_utils.verify_token: it raises HTTPException(401), or returns the
\* claims of the token, or returns (not raises) a RedirectResponse object
verify_token(req) ==
    IF req.token = None \/ req.token[1] \in token_blacklist
      THEN IF AcceptIsJson(req.accept)
             THEN [kind |-> "raise_401"]
             ELSE [kind |-> "redirect_object"]
    ELSE IF jwt_decode(req.token[1])
      THEN [kind |-> "payload", claims |-> req.token[1]]
    ELSE IF AcceptIsJson(req.accept)
      THEN [kind |-> "raise_401"]
      ELSE [kind |-> "redirect_object"]

\* What a route that takes its user from verify_token makes of a request
\* before it touches the database: the middleware answers first; a
\* RedirectResponse handed to the handler in place of the claims is truthy,
\* and the handler fails when it reads a claim from it (TypeError or
\* AttributeError, answered as a server error).
Admission(req) ==
    LET m == redirect_or_json_on_unauthorized(req)
        v == verify_token(req)
    IN  IF m # "pass" THEN [status |-> m]
        ELSE IF v.kind = "raise_401" THEN [status |-> "401"]
        ELSE IF v.kind = "redirect_object" THEN [status |-> "handler_error"]
        ELSE [status |-> "ok", user |-> v.claims]

\* The request reaches the statements of the route.  No handler reads a
\* header, so the requests served are explored with one Accept header.
Served(req) ==
    /\ req.accept = "application/json"
    /\ Admission(req).status = "ok"

\* The request does not reach the statements of the route: the response
\* names the route asked for and the request.  Requests that
\* are turned away are explored once the shop is open: whether a request is
\* admitted depends on no row of the store.
Refuse(route, req, status) ==
    /\ ShopOpen
    /\ res' = [op |-> "rejected", route |-> route, status |-> status,
               token |-> req.token, accept |-> req.accept]
    /\ UNCHANGED <<threads, now, authVars, shopVars>>

Rejected(route, req) ==
    /\ Admission(req).status # "ok"
    /\ Refuse(route, req, Admission(req).status)

\* Somebody calls blacklist_token on a token a client holds.
MaxRevoked == 1

Revoke ==
    /\ Cardinality(token_blacklist) < MaxRevoked
    /\ \E t \in tokens : blacklist_token(t)

----------------------------------------------------------------------------
(***************************************************************************)
(* routers/auth.py                                                         *)
(***************************************************************************)

\* POST /auth/register_form
register_business(username, email) ==
    /\ IF \E i \in DOMAIN business : business[i].email = email
         THEN /\ res' = [op |-> "register", status |-> "email_taken"]
              /\ UNCHANGED authVars
         ELSE IF \E i \in DOMAIN users : users[i].username = username
         THEN /\ res' = [op |-> "register", status |-> "username_taken"]
              /\ UNCHANGED authVars
         ELSE LET bid == Len(business) + 1
                  uid == Len(users) + 1
                  u   == [username |-> username, business_id |-> bid,
                          role |-> "admin"]
              IN  /\ business' = Append(business,
                                   [email |-> email, username |-> username])
                  /\ users' = Append(users, u)
                  /\ subscriptions' = Append(subscriptions,
                         [business_id |-> bid, status |-> "trial",
                          end_date |-> now + TrialDays * Day,
                          is_active |-> TRUE])
                  /\ tokens' = tokens \cup {create_access_token(uid, u)}
                  /\ res' = [op |-> "register", status |-> "ok"]
                  /\ UNCHANGED token_blacklist
    /\ UNCHANGED <<threads, now, shopVars>>

\* "subscription.end_date < now" of login_user
IsPast(end_date, t) == end_date < t

Expire(sub) == [sub EXCEPT !.status = "expired", !.is_active = FALSE]

GateInclusive(sub, t) ==
    IF sub.status = "suspended"
      THEN [verdict |-> "suspended", row |-> sub]
    ELSE IF sub.status \in {"trial", "active"} /\ sub.end_date <= t
      THEN [verdict |-> "expired", row |-> Expire(sub)]
      ELSE [verdict |-> "ok", row |-> sub]

GateExpiryFirst(sub, t) ==
    IF sub.status # "expired" /\ sub.end_date < t
      THEN [verdict |-> "expired", row |-> Expire(sub)]
    ELSE IF sub.status = "suspended"
      THEN [verdict |-> "suspended", row |-> sub]
      ELSE [verdict |-> "ok", row |-> sub]

\* The subscription checks of login_user on subscription row sub at time t:
\* the verdict and the row as the handler leaves it in the store.
SubscriptionGate(sub, t) ==
    IF sub.status = "suspended"
      THEN [verdict |-> "suspended", row |-> sub]
    ELSE IF sub.status = "trial" /\ IsPast(sub.end_date, t)
      THEN [verdict |-> "expired", row |-> Expire(sub)]
    ELSE IF sub.status = "active" /\ IsPast(sub.end_date, t)
      THEN [verdict |-> "expired", row |-> Expire(sub)]
      ELSE [verdict |-> "ok", row |-> sub]

\* db.query(Subscription).filter(business_id == bid).first()
SubscriptionOf(bid) ==
    First({i \in DOMAIN subscriptions : subscriptions[i].business_id = bid})

\* 'if user.role == "superadmin"': the branch that returns a token before
\* the subscription is looked up
BypassNobody(u) == FALSE

SuperadminBypass(u) == u.role = "superadmin"

\* POST /auth/login_form; pwOk: pwd_context.verify(password, hash)
login_user(username, pwOk) ==
    LET found == First({i \in DOMAIN users : users[i].username = username})
        reply(st, tok) == [op |-> "login", status |-> st,
                           username |-> username, token |-> tok]
    IN
    /\ IF found = None \/ ~pwOk
         THEN /\ res' = reply("invalid", None)
              /\ UNCHANGED authVars
         ELSE
         LET uid == found[1]
             u   == users[uid]
             sid == SubscriptionOf(u.business_id)
         IN  IF SuperadminBypass(u)
               THEN /\ tokens' = tokens \cup {create_access_token(uid, u)}
                    /\ res' = reply("ok", Some(create_access_token(uid, u)))
                    /\ UNCHANGED <<business, users, subscriptions,
                                   token_blacklist>>
             ELSE IF sid = None
               THEN /\ res' = reply("missing", None)
                    /\ UNCHANGED authVars
             ELSE LET g == SubscriptionGate(subscriptions[sid[1]], now)
                  IN  /\ subscriptions' =
                             [subscriptions EXCEPT ![sid[1]] = g.row]
                      /\ tokens' = IF g.verdict = "ok"
                                     THEN tokens \cup {create_access_token(uid, u)}
                                     ELSE tokens
                      /\ res' = reply(g.verdict,
                               IF g.verdict = "ok"
                                 THEN Some(create_access_token(uid, u))
                                 ELSE None)
                      /\ UNCHANGED <<business, users, token_blacklist>>
    /\ UNCHANGED <<threads, now, shopVars>>

\* GET /auth/dashboard, past the middleware, with the cookie `token`: the
\* route decodes the cookie itself and looks the user up (no user of the
\* model has role staff)
get_dashboard(token) ==
    LET found == IF jwt_decode(token)
                   THEN First({i \in DOMAIN users : i = token.user_id})
                   ELSE None
    IN
    /\ res' = IF found = None
                THEN [op |-> "get_dashboard", status |-> "to_login",
                      token |-> token]
                ELSE [op |-> "get_dashboard", status |-> "ok",
                      token |-> token,
                      username |-> users[found[1]].username,
                      business_id |-> users[found[1]].business_id,
                      role |-> users[found[1]].role]
    /\ UNCHANGED <<threads, now, authVars, shopVars>>

GetDashboard ==
    \E req \in Requests :
       \/ /\ redirect_or_json_on_unauthorized(req) # "pass"
          /\ Refuse("get_dashboard", req,
                    redirect_or_json_on_unauthorized(req))
       \/ /\ req.accept = "text/html"
          /\ redirect_or_json_on_unauthorized(req) = "pass"
          /\ get_dashboard(req.token[1])

\* GET /auth/logout, past the middleware, with the cookie `token`: the
\* response deletes the cookie at the browser.  The route reads no request
\* and calls nothing of auth_utils; a copy of the token stays usable.
logout_user(token) ==
    /\ res' = [op |-> "logout", status |-> "ok", token |-> Some(token)]
    /\ UNCHANGED <<threads, now, authVars, shopVars>>

\* /auth/logout is not a public path ("/auth/logout" does not start with
\* "/auth/login"): the middleware wants a cookie that decodes
Logout ==
    \E req \in Requests :
       \/ /\ redirect_or_json_on_unauthorized(req) # "pass"
          /\ Refuse("logout", req, redirect_or_json_on_unauthorized(req))
       \/ /\ req.accept = "text/html"
          /\ redirect_or_json_on_unauthorized(req) = "pass"
          /\ logout_user(req.token[1])

----------------------------------------------------------------------------
(***************************************************************************)
(* routers/superadmin.py                                                   *)
(***************************************************************************)

\* require_superadmin, given the claims verify_token returned: the user row
\* of the token's user_id has role superadmin
require_superadmin(t) ==
    /\ t.user_id \in DOMAIN users
    /\ users[t.user_id].role = "superadmin"

activate_row(sub)   == [sub EXCEPT !.status = "active", !.is_active = TRUE,
                                   !.end_date = now + ActivateDays * Day]
RenewFromNow(sub)   == [sub EXCEPT !.status = "active", !.is_active = TRUE,
                                   !.end_date = now + RenewDays * Day]

renew_row(sub)      == [sub EXCEPT !.status = "active", !.is_active = TRUE,
                                   !.end_date = sub.end_date + RenewDays * Day]
SuspendKeepsFlag(sub) == [sub EXCEPT !.status = "suspended"]

suspend_row(sub)    == [sub EXCEPT !.status = "suspended", !.is_active = FALSE]
reactivate_row(sub) == [sub EXCEPT !.status = "active", !.is_active = TRUE]

\* The row a subscription route writes
Changed(name, sub) ==
    CASE name = "activate"   -> activate_row(sub)
      [] name = "renew"      -> renew_row(sub)
      [] name = "suspend"    -> suspend_row(sub)
      [] name = "reactivate" -> reactivate_row(sub)

\* The common shape of the four subscription routes
SuperOp(name, t, bid) ==
    LET sid == SubscriptionOf(bid)
        reply(st) == [op |-> name, status |-> st, business_id |-> bid,
                      user_id |-> t.user_id]
    IN
    /\ IF ~require_superadmin(t)
         THEN /\ res' = reply("forbidden")
              /\ UNCHANGED subscriptions
       ELSE IF sid = None
         THEN /\ res' = reply("not_found")
              /\ UNCHANGED subscriptions
         ELSE /\ subscriptions' = [subscriptions EXCEPT
                                ![sid[1]] = Changed(name, subscriptions[sid[1]])]
              /\ res' = reply("ok")
    /\ UNCHANGED <<threads, now, business, users, tokens, token_blacklist, shopVars>>

\* POST /superadmin/activate/{business_id}
activate_subscription(t, bid) == SuperOp("activate", t, bid)

\* POST /superadmin/renew/{business_id}
renew_subscription(t, bid) ==
    /\ \A i \in DOMAIN subscriptions :
          subscriptions[i].business_id = bid
            => subscriptions[i].end_date + RenewDays * Day <= MaxEnd
    /\ SuperOp("renew", t, bid)

\* POST /superadmin/suspend/{business_id}
suspend_account(t, bid) == SuperOp("suspend", t, bid)

\* POST /superadmin/reactivate/{business_id}
reactivate_account(t, bid) == SuperOp("reactivate", t, bid)

BusinessIds == 1..Cardinality(Emails)

\* Names and addresses are interchangeable: the first business is explored
\* registering as u1 with e1.
Register == \E un \in Usernames \cup {SuperName}, em \in Emails :
                /\ business = << >> => (un = "u1" /\ em = "e1")
                /\ register_business(un, em)
Login    == \E un \in Usernames \cup {SuperName}, ok \in BOOLEAN :
                login_user(un, ok)
Activate ==
    \E req \in Requests :
       \/ Rejected("activate", req)
       \/ /\ Served(req)
          /\ \E b \in BusinessIds :
                activate_subscription(Admission(req).user, b)
Renew ==
    \E req \in Requests :
       \/ Rejected("renew", req)
       \/ /\ Served(req)
          /\ \E b \in BusinessIds :
                renew_subscription(Admission(req).user, b)
Suspend ==
    \E req \in Requests :
       \/ Rejected("suspend", req)
       \/ /\ Served(req)
          /\ \E b \in BusinessIds :
                suspend_account(Admission(req).user, b)
Reactivate ==
    \E req \in Requests :
       \/ Rejected("reactivate", req)
       \/ /\ Served(req)
          /\ \E b \in BusinessIds :
                reactivate_account(Admission(req).user, b)

NextAuth == \/ Tick \/ Register \/ Login
            \/ Activate \/ Renew \/ Suspend \/ Reactivate

SpecAuth == Init /\ [][NextAuth]_vars

----------------------------------------------------------------------------
(***************************************************************************)
(* register_business, commit by commit.  The route commits the Business    *)
(* row, then the admin User row, then the Subscription row; each commit is *)
(* visible to the other thread at once.  An exception anywhere ends in     *)
(* `except Exception: db.rollback()` and a 400, and rollback undoes only   *)
(* what was not committed yet.                                             *)
(***************************************************************************)

\* The two duplicate checks, and the end of the request when one hits
register_check(t, username, email) ==
    /\ threads[t] = Idle
    /\ IF \E i \in DOMAIN business : business[i].email = email
         THEN /\ res' = [op |-> "register", status |-> "email_taken"]
              /\ UNCHANGED threads
       ELSE IF \E i \in DOMAIN users : users[i].username = username
         THEN /\ res' = [op |-> "register", status |-> "username_taken"]
              /\ UNCHANGED threads
         ELSE /\ threads' = [threads EXCEPT ![t] =
                    [pc |-> "add_business", username |-> username,
                     email |-> email]]
              /\ UNCHANGED res
    /\ UNCHANGED <<now, authVars, shopVars>>

\* db.add(new_business); db.commit(): business.email is unique, and the
\* INSERT fails when the other thread has committed the same email since
\* the check
register_add_business(t) ==
    LET my == threads[t] IN
    /\ my.pc = "add_business"
    /\ IF \E i \in DOMAIN business : business[i].email = my.email
         THEN /\ res' = [op |-> "register", status |-> "integrity_error"]
              /\ threads' = [threads EXCEPT ![t] = Idle]
              /\ UNCHANGED business
         ELSE /\ business' = Append(business,
                    [email |-> my.email, username |-> my.username])
              /\ threads' = [threads EXCEPT ![t] =
                    [pc |-> "add_user", username |-> my.username,
                     business_id |-> Len(business) + 1]]
              /\ UNCHANGED res
    /\ UNCHANGED <<now, users, subscriptions, tokens, token_blacklist,
                   shopVars>>

\* db.add(admin_user); db.commit(): users.username is unique, and the INSERT
\* fails when the other thread has committed the same username since the
\* check; the Business row committed before stays
register_add_user(t) ==
    LET my == threads[t] IN
    /\ my.pc = "add_user"
    /\ IF \E i \in DOMAIN users : users[i].username = my.username
         THEN /\ res' = [op |-> "register", status |-> "integrity_error"]
              /\ threads' = [threads EXCEPT ![t] = Idle]
              /\ UNCHANGED users
         ELSE /\ users' = Append(users,
                    [username |-> my.username,
                     business_id |-> my.business_id, role |-> "admin"])
              /\ threads' = [threads EXCEPT ![t] =
                    [pc |-> "add_subscription",
                     user_id |-> Len(users) + 1,
                     business_id |-> my.business_id]]
              /\ UNCHANGED res
    /\ UNCHANGED <<now, business, subscriptions, tokens, token_blacklist,
                   shopVars>>

\* db.add(new_subscription); db.commit(), the token of the automatic login
\* and the response
register_add_subscription(t) ==
    LET my == threads[t] IN
    /\ my.pc = "add_subscription"
    /\ subscriptions' = Append(subscriptions,
           [business_id |-> my.business_id, status |-> "trial",
            end_date |-> now + TrialDays * Day, is_active |-> TRUE])
    /\ tokens' = tokens \cup
                    {create_access_token(my.user_id, users[my.user_id])}
    /\ threads' = [threads EXCEPT ![t] = Idle]
    /\ res' = [op |-> "register", status |-> "ok"]
    /\ UNCHANGED <<now, business, users, token_blacklist, shopVars>>

RegisterCheck ==
    \E t \in Threads, un \in Usernames \cup {SuperName}, em \in Emails :
       register_check(t, un, em)
RegisterAddBusiness     == \E t \in Threads : register_add_business(t)
RegisterAddUser         == \E t \in Threads : register_add_user(t)
RegisterAddSubscription == \E t \in Threads : register_add_subscription(t)

\* Registrations arriving on both threads, over the days
NextRegister == \/ Tick \/ RegisterCheck \/ RegisterAddBusiness
                \/ RegisterAddUser \/ RegisterAddSubscription

SpecRegister == Init /\ [][NextRegister]_vars

----------------------------------------------------------------------------
(***************************************************************************)
(* backend/models.py and routers/product.py                                *)
(***************************************************************************)

\* Product.validate_price: the @validates("price") hook, run whenever the
\* attribute price is assigned; buying_price is the value the object holds
\* at that moment.  TRUE when the assignment is let through.
validate_price(buying_price, value) ==
    ~(buying_price # None /\ value < buying_price[1])

\* models.Product(name=, price=, buying_price=, quantity=, business_id=):
\* the declarative constructor assigns the keyword arguments in the order
\* they are written, so price is assigned, and validated, while the new
\* object's buying_price is still unset.
ProductCtorAccepts(price, buying_price) == validate_price(None, price)

\* POST /products/add_product by a caller of business b
add_product(b, name, price, buying_price, quantity) ==
    LET reply(st) == [op |-> "add_product", status |-> st, business_id |-> b]
    IN
    /\ Len(products) < MaxProducts
    /\ IF ~ProductCtorAccepts(price, Some(buying_price))
         THEN /\ res' = reply("invalid_price")
              /\ UNCHANGED products
       ELSE IF \E i \in DOMAIN products :
                  products[i].name = name /\ products[i].business_id = b
         THEN /\ res' = reply("conflict")      \* uq_product_name_business
              /\ UNCHANGED products
         ELSE /\ products' = Append(products,
                    [name |-> name, business_id |-> b, price |-> price,
                     buying_price |-> Some(buying_price),
                     quantity |-> quantity])
              /\ res' = reply("ok")
    /\ UNCHANGED <<threads, now, authVars, orders, sales, sales_next_id, events>>

\* GET /products/ by a caller of business b
get_products(b) ==
    /\ res' = IF b = NoBusiness       \* "if not business_id": to the login page
                THEN [op |-> "get_products", status |-> "no_business",
                      business_id |-> b, rows |-> {}]
                ELSE [op |-> "get_products", status |-> "ok", business_id |-> b,
                      rows |-> {i \in DOMAIN products :
                                   products[i].business_id = b}]
    /\ UNCHANGED <<threads, now, authVars, shopVars>>

\* filter(Product.id == product_id, Product.business_id == caller's).first()
\* finds a row
OwnProductAnyTenant(b, product_id) == product_id \in DOMAIN products

OwnProduct(b, product_id) ==
    /\ product_id \in DOMAIN products
    /\ products[product_id].business_id = b

\* data.get(key, current): a field of the patch is None when the key is
\* absent and Some(value) when it is present.
PatchGet(field, current) == IF field = None THEN current ELSE field[1]

\* PUT /products/update_stock/{product_id} by a caller of business b
update_stock(b, product_id, data) ==
    LET reply(st) == [op |-> "update_stock", status |-> st, business_id |-> b,
                      product_id |-> product_id]
    IN
    /\ IF ~OwnProduct(b, product_id)
         THEN /\ res' = reply("not_found")
              /\ UNCHANGED products
         ELSE
         LET product == products[product_id]
             quantity == PatchGet(data.quantity, product.quantity)
             price == PatchGet(data.price, product.price)
             buying_price == PatchGet(data.buying_price, product.buying_price)
         IN  IF ~validate_price(product.buying_price, price)
               THEN /\ res' = reply("invalid_price")   \* ValueError, no commit
                    /\ UNCHANGED products
               ELSE /\ products' = [products EXCEPT ![product_id] =
                          [product EXCEPT !.quantity = quantity,
                                          !.price = price,
                                          !.buying_price = buying_price]]
                    /\ res' = reply("ok")
    /\ UNCHANGED <<threads, now, authVars, orders, sales, sales_next_id, events>>

----------------------------------------------------------------------------
(***************************************************************************)
(* routers/sales.py                                                        *)
(***************************************************************************)

\* Order.business_id of the order a sales row joins to
SaleBusiness(s) == orders[s.order_id].business_id

\* has_real_sale is not None: the business has a Sales row with
\* is_demo == False
has_real_sale(b) == \E s \in sales : SaleBusiness(s) = b /\ ~s.is_demo

\* is_demo_sale = (is_onboarding and has_real_sale is None)
DemoWheneverOnboarding(b, is_onboarding) == is_onboarding

is_demo_sale(b, is_onboarding) == is_onboarding /\ ~has_real_sale(b)

\* The table sales after the bulk delete of the demo rows of business b
PurgeDemo(b) == {s \in sales : ~(SaleBusiness(s) = b /\ s.is_demo)}

\* "product.quantity < item.quantity"
OutOfStockInclusive(stock, wanted) == stock <= wanted

OutOfStock(stock, wanted) == stock < wanted

\* "product.buying_price is not None
\*   and item.selling_price < product.buying_price"
BelowFloorInclusive(buying_price, selling_price) ==
    buying_price # None /\ selling_price <= buying_price[1]

BelowFloor(buying_price, selling_price) ==
    buying_price # None /\ selling_price < buying_price[1]

\* One pass of the loop body over line item `item`, with prods the product
\* rows as the session holds them (rows already touched by earlier lines keep
\* their decremented quantity: the identity map returns the same object).
\* The outcome of the line: its status, and the product id it resolved to.
SaleLine(b, item, demo, prods) ==
    LET hit == First({i \in DOMAIN prods :
                         /\ prods[i].name = item.product_name
                         /\ prods[i].business_id = b})
    IN  IF hit = None
          THEN [status |-> "not_found", pid |-> 0]
        ELSE IF ~demo /\ OutOfStock(prods[hit[1]].quantity, item.quantity)
          THEN [status |-> "insufficient_stock", pid |-> hit[1]]
        ELSE IF BelowFloor(prods[hit[1]].buying_price, item.selling_price)
          THEN [status |-> "price_floor", pid |-> hit[1]]
          ELSE [status |-> "ok", pid |-> hit[1]]

\* subtotal = item.selling_price * item.quantity
SubtotalAtCatalogPrice(item, product) == product.price * item.quantity

Subtotal(item, product) == item.selling_price * item.quantity

\* The for loop of record_sale from line item i on: the session's products,
\* the Sales rows added to the session (in order) and total_amount so far.
RECURSIVE SaleLoop(_, _, _, _, _, _, _)
SaleLoop(b, items, demo, oid, i, st, prods) ==
    IF i > Len(items)
      THEN [status |-> "ok", prods |-> prods, rows |-> st.rows,
            total |-> st.total]
      ELSE
      LET item == items[i]
          line == SaleLine(b, item, demo, prods)
      IN  IF line.status # "ok"
            THEN [status |-> line.status, prods |-> prods, rows |-> st.rows,
                  total |-> st.total]
            ELSE SaleLoop(b, items, demo, oid, i + 1,
                   [rows |-> Append(st.rows,
                       [order_id |-> oid, product_id |-> line.pid,
                        quantity |-> item.quantity,
                        total_price |-> Subtotal(item, prods[line.pid]),
                        is_demo |-> demo]),
                    total |-> st.total + Subtotal(item, prods[line.pid])],
                   IF demo THEN prods
                   ELSE [prods EXCEPT ![line.pid].quantity =
                                          @ - item.quantity])

\* "SELECT id FROM orders ORDER BY id DESC LIMIT 1", plus one
NextNumberIsLastId == IF Len(orders) = 0 THEN 1 ELSE Len(orders)

next_number == IF Len(orders) = 0 THEN 1 ELSE Len(orders) + 1

\* The decimal digits of n, most significant first
RECURSIVE Digits(_)
Digits(n) == IF n < 10 THEN <<n>> ELSE Append(Digits(n \div 10), n % 10)

\* The format specification 05d: zero-padded to at least five digits
RECURSIVE ZeroPad(_, _)
ZeroPad(ds, width) ==
    IF Len(ds) >= width THEN ds ELSE ZeroPad(<<0>> \o ds, width)

\* order_code = f"ORD-{next_number:05d}"
OrderCode(n) == [prefix |-> "ORD-", digits |-> ZeroPad(Digits(n), 5)]

\* The Sales rows of a flushed session: ids are handed out in insertion
\* order from the table's counter.
Flushed(rows) ==
    {[id |-> sales_next_id + k - 1, order_id |-> rows[k].order_id,
      product_id |-> rows[k].product_id, quantity |-> rows[k].quantity,
      total_price |-> rows[k].total_price, is_demo |-> rows[k].is_demo]
       : k \in DOMAIN rows}

\* The rows of table onboarding_events for business b and event
EventRows(b, event) ==
    {i \in DOMAIN events :
        events[i].business_id = b /\ events[i].event = event}

\* backend/onboarding_utils.record_onboarding_event: idempotent insert, a
\* second call for the same business and event is a no-op and not an error
record_onboarding_event(b, event) ==
    IF EventRows(b, event) # {}
      THEN events
      ELSE Append(events, [business_id |-> b, event |-> event])

\* What stays in table orders when the loop fails: the order header was
\* committed before the loop (db.add(new_order); db.commit()).
OrdersAfterFailure(header) == Append(orders, header)

\* POST /sales/record_sale/ by a caller of business b;
\* is_onboarding: the query parameter source is "onboarding"
record_sale(b, items, is_onboarding) ==
    LET demo   == is_demo_sale(b, is_onboarding)
        kept   == IF demo THEN sales ELSE PurgeDemo(b)
        oid    == Len(orders) + 1
        header == [order_code |-> OrderCode(next_number), business_id |-> b,
                   total_amount |-> 0]
        run    == SaleLoop(b, items, demo, oid, 1,
                           [rows |-> << >>, total |-> 0], products)
        reply(st) == [op |-> "record_sale", status |-> st, business_id |-> b,
                      items |-> items, is_onboarding |-> is_onboarding,
                      is_demo |-> demo, order_id |-> oid]
    IN
    /\ Len(orders) < MaxOrders
    /\ IF run.status # "ok"
         THEN \* HTTPException out of the loop: the session is closed, the
              \* purge and the order header are already committed
              /\ sales' = kept
              /\ orders' = OrdersAfterFailure(header)
              /\ UNCHANGED <<products, sales_next_id, events>>
              /\ res' = reply(run.status)
         ELSE /\ sales' = kept \cup Flushed(run.rows)
              /\ sales_next_id' = sales_next_id + Len(run.rows)
              /\ orders' = Append(orders,
                              [header EXCEPT !.total_amount = run.total])
              /\ products' = run.prods
              /\ events' = record_onboarding_event(b, "sell_product")
              /\ res' = reply("ok")
    /\ UNCHANGED <<threads, now, authVars>>

\* GET /sales/get_sales_items by a caller of business b: the Sales rows of
\* the orders of business b (joined to their order and product)
get_sales_items(b) ==
    /\ res' = [op |-> "get_sales_items", status |-> "ok", business_id |-> b,
               rows |-> {s \in sales : SaleBusiness(s) = b}]
    /\ UNCHANGED <<threads, now, authVars, shopVars>>

\* GET /sales/salesreport by a caller of business b: the page logs the
\* onboarding event view_report
sales_report_page(b) ==
    /\ events' = record_onboarding_event(b, "view_report")
    /\ res' = [op |-> "sales_report_page", status |-> "ok",
               business_id |-> b]
    /\ UNCHANGED <<threads, now, authVars, products, orders, sales,
                   sales_next_id>>

----------------------------------------------------------------------------
(***************************************************************************)
(* routers/onboarding.py                                                   *)
(***************************************************************************)

has_product(b) == \E i \in DOMAIN products : products[i].business_id = b
has_sale(b)    == \E i \in DOMAIN orders : orders[i].business_id = b

viewed_stock(b)  == EventRows(b, "view_stock") # {}
viewed_report(b) == EventRows(b, "view_report") # {}

StepsWithoutEvents(b) ==
    [add_product  |-> has_product(b),
     update_stock |-> has_product(b),
     sell_product |-> has_sale(b),
     view_report  |-> has_sale(b)]

\* The checklist `steps` of onboarding_status
steps(b) ==
    [add_product  |-> has_product(b),
     update_stock |-> viewed_stock(b) \/ has_product(b),
     sell_product |-> has_sale(b),
     view_report  |-> viewed_report(b) \/ has_sale(b)]

\* int((completed / 4) * 100)
progress(st) ==
    Cardinality({k \in DOMAIN st : st[k]}) * 25

\* GET /onboarding/status by a caller of business b
onboarding_status(b) ==
    /\ res' = IF b = NoBusiness
                THEN [op |-> "onboarding_status", status |-> "no_business",
                      business_id |-> b]
                ELSE [op |-> "onboarding_status", status |-> "ok",
                      business_id |-> b, steps |-> steps(b),
                      progress |-> progress(steps(b))]
    /\ UNCHANGED <<threads, now, authVars, shopVars>>

----------------------------------------------------------------------------
(***************************************************************************)
(* The catalog and sales requests, made by the holders of issued tokens.   *)
(***************************************************************************)
Opt(S) == {None} \cup {Some(v) : v \in S}

Patches == [quantity : Opt(StockQtys), price : Opt(Prices),
            buying_price : Opt(Opt(Prices))]

Items == [product_name : Names, quantity : SaleQtys, selling_price : Prices]

ItemLists == UNION {[1..n -> Items] : n \in 1..MaxItems}

AddProduct ==
    /\ SetUp
    /\ \E req \in Requests :
          \/ Rejected("add_product", req)
          \/ /\ Served(req)
             /\ \E n \in Names, p \in Prices, bp \in Prices, q \in StockQtys :
                   add_product(Admission(req).user.business_id, n, p, bp, q)
GetProducts ==
    \E req \in Requests :
       \/ Rejected("get_products", req)
       \/ /\ Served(req)
          /\ get_products(Admission(req).user.business_id)
UpdateStock ==
    /\ SetUp
    /\ \E req \in Requests :
          \/ Rejected("update_stock", req)
          \/ /\ Served(req)
             /\ \E id \in 1..MaxProducts, d \in Patches :
                   update_stock(Admission(req).user.business_id, id, d)
RecordSale ==
    /\ ShopOpen
    /\ \E req \in Requests :
          \/ Rejected("record_sale", req)
          \/ /\ Served(req)
             /\ \E its \in ItemLists, ob \in BOOLEAN :
                   record_sale(Admission(req).user.business_id, its, ob)
GetSalesItems ==
    \E req \in Requests :
       \/ Rejected("get_sales_items", req)
       \/ /\ Served(req)
          /\ get_sales_items(Admission(req).user.business_id)

\* Two businesses have registered (u1/e1, then u2/e2) and hold their tokens.
InitShop ==
    /\ now = 0
    /\ business = << [email |-> "e1", username |-> "u1"],
                     [email |-> "e2", username |-> "u2"] >>
    /\ users = << [username |-> SuperName, business_id |-> NoBusiness,
                   role |-> "superadmin"],
                  [username |-> "u1", business_id |-> 1, role |-> "admin"],
                  [username |-> "u2", business_id |-> 2, role |-> "admin"] >>
    /\ subscriptions = << [business_id |-> 1, status |-> "trial",
                           end_date |-> TrialDays * Day, is_active |-> TRUE],
                          [business_id |-> 2, status |-> "trial",
                           end_date |-> TrialDays * Day, is_active |-> TRUE] >>
    /\ tokens = {create_access_token(i, users[i]) : i \in {2, 3}}
    /\ token_blacklist = {}
    /\ products = << >>
    /\ orders = << >>
    /\ sales = {}
    /\ sales_next_id = 1
    /\ events = << >>
    /\ threads = [t \in Threads |-> Idle]
    /\ res = [op |-> "register", status |-> "ok"]

\* The sales report is a page: the browser asks for text/html; a caller
\* without a business (the superadmin) is not explored
SalesReportPage ==
    \E req \in Requests :
       \/ Rejected("sales_report_page", req)
       \/ /\ req.accept = "text/html"
          /\ Admission(req).status = "ok"
          /\ Admission(req).user.business_id # NoBusiness
          /\ sales_report_page(Admission(req).user.business_id)
OnboardingStatus ==
    \E req \in Requests :
       \/ Rejected("onboarding_status", req)
       \/ /\ Served(req)
          /\ onboarding_status(Admission(req).user.business_id)

NextShop == \/ AddProduct \/ GetProducts \/ UpdateStock
            \/ RecordSale \/ GetSalesItems

SpecShop == InitShop /\ [][NextShop]_vars

\* A sale of one line
RecordSaleOfOneLine ==
    \E req \in Requests :
       \/ Rejected("record_sale", req)
       \/ /\ Served(req)
          /\ \E it \in Items, ob \in BOOLEAN :
                record_sale(Admission(req).user.business_id, <<it>>, ob)

\* Onboarding: the two businesses of InitShop, with one of the opening
\* catalogs in place and nothing sold yet.  They sell one line at a time,
\* open the sales report and ask for their checklist.
InitOnboarding ==
    /\ now = 0
    /\ business = << [email |-> "e1", username |-> "u1"],
                     [email |-> "e2", username |-> "u2"] >>
    /\ users = << [username |-> SuperName, business_id |-> NoBusiness,
                   role |-> "superadmin"],
                  [username |-> "u1", business_id |-> 1, role |-> "admin"],
                  [username |-> "u2", business_id |-> 2, role |-> "admin"] >>
    /\ subscriptions = << [business_id |-> 1, status |-> "trial",
                           end_date |-> TrialDays * Day, is_active |-> TRUE],
                          [business_id |-> 2, status |-> "trial",
                           end_date |-> TrialDays * Day, is_active |-> TRUE] >>
    /\ tokens = {create_access_token(i, users[i]) : i \in {2, 3}}
    /\ token_blacklist = {}
    /\ products \in OpeningCatalogs
    /\ orders = << >>
    /\ sales = {}
    /\ sales_next_id = 1
    /\ events = << >>
    /\ threads = [t \in Threads |-> Idle]
    /\ res = [op |-> "register", status |-> "ok"]

NextOnboarding == \/ RecordSaleOfOneLine \/ SalesReportPage
                  \/ OnboardingStatus

SpecOnboarding == InitOnboarding /\ [][NextOnboarding]_vars

----------------------------------------------------------------------------
(***************************************************************************)
(* record_sale, commit by commit, for requests in progress on two threads. *)
(* No statement of the route locks a row (no with_for_update, no version   *)
(* column): a thread reads what is committed, and its commit writes the    *)
(* values its session computed.                                            *)
(***************************************************************************)

\* verify_token, has_real_sale, is_demo_sale and, for a real sale, the
\* purge of the demo rows and its commit
sale_begin(t, b, items, is_onboarding) ==
    LET demo == is_demo_sale(b, is_onboarding) IN
    /\ threads[t] = Idle
    /\ Len(orders) + Cardinality({u \in Threads : threads[u] # Idle})
          < MaxOrders
    /\ sales' = IF demo THEN sales ELSE PurgeDemo(b)
    /\ threads' = [threads EXCEPT ![t] =
          [pc |-> "last_order", business_id |-> b, items |-> items,
           is_onboarding |-> is_onboarding, is_demo |-> demo]]
    /\ UNCHANGED <<now, authVars, products, orders, sales_next_id, events,
                   res>>

\* "SELECT id FROM orders ORDER BY id DESC LIMIT 1" and the order code
sale_last_order(t) ==
    LET my == threads[t] IN
    /\ my.pc = "last_order"
    /\ threads' = [threads EXCEPT ![t] =
          [pc |-> "add_order", business_id |-> my.business_id,
           items |-> my.items, is_onboarding |-> my.is_onboarding,
           is_demo |-> my.is_demo, order_code |-> OrderCode(next_number)]]
    /\ UNCHANGED <<now, authVars, shopVars, res>>

\* The response of a request of thread record my
SaleReply(my, st, oid) ==
    [op |-> "record_sale", status |-> st, business_id |-> my.business_id,
     items |-> my.items, is_onboarding |-> my.is_onboarding,
     is_demo |-> my.is_demo, order_id |-> oid]

\* db.add(new_order); db.commit(): orders.order_code is unique, and the
\* INSERT fails when the other thread has committed the same code since
\* the SELECT (the exception is not caught: a server error)
sale_add_order(t) ==
    LET my == threads[t] IN
    /\ my.pc = "add_order"
    /\ IF \E i \in DOMAIN orders : orders[i].order_code = my.order_code
         THEN /\ res' = SaleReply(my, "integrity_error", 0)
              /\ threads' = [threads EXCEPT ![t] = Idle]
              /\ UNCHANGED orders
         ELSE /\ orders' = Append(orders,
                    [order_code |-> my.order_code,
                     business_id |-> my.business_id, total_amount |-> 0])
              /\ threads' = [threads EXCEPT ![t] =
                    [pc |-> "loop", business_id |-> my.business_id,
                     items |-> my.items,
                     is_onboarding |-> my.is_onboarding,
                     is_demo |-> my.is_demo, order_id |-> Len(orders) + 1]]
              /\ UNCHANGED res
    /\ UNCHANGED <<now, authVars, products, sales, sales_next_id, events>>

\* The for loop: the session reads the committed product rows, checks each
\* line and keeps the new quantities and the Sales rows to itself
sale_loop(t) ==
    LET my  == threads[t]
        run == SaleLoop(my.business_id, my.items, my.is_demo, my.order_id,
                        1, [rows |-> << >>, total |-> 0], products)
    IN
    /\ my.pc = "loop"
    /\ IF run.status # "ok"
         THEN /\ res' = SaleReply(my, run.status, my.order_id)
              /\ threads' = [threads EXCEPT ![t] = Idle]
         ELSE /\ threads' = [threads EXCEPT ![t] =
                    [pc |-> "commit", business_id |-> my.business_id,
                     items |-> my.items,
                     is_onboarding |-> my.is_onboarding,
                     is_demo |-> my.is_demo, order_id |-> my.order_id,
                     rows |-> run.rows, total |-> run.total,
                     quantity |->
                        [i \in {j \in DOMAIN products :
                                   run.prods[j] # products[j]}
                           |-> run.prods[i].quantity]]]
              /\ UNCHANGED res
    /\ UNCHANGED <<now, authVars, shopVars>>

\* The units of product i in the first n Sales rows of a session
RECURSIVE UnitsOf(_, _, _)
UnitsOf(rows, n, i) ==
    IF n = 0 THEN 0
    ELSE UnitsOf(rows, n - 1, i)
         + (IF rows[n].product_id = i THEN rows[n].quantity ELSE 0)

\* "UPDATE products SET quantity = quantity - units"
QuantityLessUnits(my, i) ==
    products[i].quantity - UnitsOf(my.rows, Len(my.rows), i)

\* The quantity the flush writes to product row i: the UPDATE sets the
\* column to the value of the session's object
FlushedQuantity(my, i) == my.quantity[i]

\* new_order.total_amount = total_amount; db.commit(): the flush updates
\* the products the session changed and the order, and inserts the Sales
\* rows; then the onboarding event and the response
sale_commit(t) ==
    LET my == threads[t] IN
    /\ my.pc = "commit"
    /\ products' = [i \in DOMAIN products |->
                      IF i \in DOMAIN my.quantity
                        THEN [products[i] EXCEPT
                                 !.quantity = FlushedQuantity(my, i)]
                        ELSE products[i]]
    /\ sales' = sales \cup Flushed(my.rows)
    /\ sales_next_id' = sales_next_id + Len(my.rows)
    /\ orders' = [orders EXCEPT ![my.order_id].total_amount = my.total]
    /\ events' = record_onboarding_event(my.business_id, "sell_product")
    /\ res' = SaleReply(my, "ok", my.order_id)
    /\ threads' = [threads EXCEPT ![t] = Idle]
    /\ UNCHANGED <<now, authVars>>

SaleBegin ==
    \E t \in Threads, req \in Requests :
       /\ Served(req)
       /\ \E it \in Items, ob \in BOOLEAN :
             sale_begin(t, Admission(req).user.business_id, <<it>>, ob)
SaleLastOrder == \E t \in Threads : sale_last_order(t)
SaleAddOrder  == \E t \in Threads : sale_add_order(t)
SaleLoopStep  == \E t \in Threads : sale_loop(t)
SaleCommit    == \E t \in Threads : sale_commit(t)

\* Concurrent sales: business 1 holds a token and stocks one unit of "w"
\* (buying price 2) and one unit of "g" (no buying price)
InitRace ==
    /\ now = 0
    /\ business = << [email |-> "e1", username |-> "u1"] >>
    /\ users = << [username |-> SuperName, business_id |-> NoBusiness,
                   role |-> "superadmin"],
                  [username |-> "u1", business_id |-> 1, role |-> "admin"] >>
    /\ subscriptions = << [business_id |-> 1, status |-> "trial",
                           end_date |-> TrialDays * Day, is_active |-> TRUE] >>
    /\ tokens = {create_access_token(2, users[2])}
    /\ token_blacklist = {}
    /\ products = << [name |-> "w", business_id |-> 1, price |-> 2,
                      buying_price |-> Some(2), quantity |-> 1],
                     [name |-> "g", business_id |-> 1, price |-> 2,
                      buying_price |-> None, quantity |-> 1] >>
    /\ orders = << >>
    /\ sales = {}
    /\ sales_next_id = 1
    /\ events = << >>
    /\ threads = [t \in Threads |-> Idle]
    /\ res = [op |-> "register", status |-> "ok"]

NextRace == \/ SaleBegin \/ SaleLastOrder \/ SaleAddOrder
            \/ SaleLoopStep \/ SaleCommit

SpecRace == InitRace /\ [][NextRace]_vars

\* Sessions: a week after business 1 registered, on the last day of its
\* trial, with a catalog in place and one sale on record.  Users log in,
\* minutes pass, the superadmin suspends accounts, tokens are revoked, and
\* the holders of tokens read their catalog, their sales and their dashboard.
InitSession ==
    /\ now = TrialDays * Day
    /\ business = << [email |-> "e1", username |-> "u1"] >>
    /\ users = << [username |-> SuperName, business_id |-> NoBusiness,
                   role |-> "superadmin"],
                  [username |-> "u1", business_id |-> 1, role |-> "admin"] >>
    /\ subscriptions = << [business_id |-> 1, status |-> "trial",
                           end_date |-> TrialDays * Day, is_active |-> TRUE] >>
    /\ tokens = {}
    /\ token_blacklist = {}
    /\ products = << [name |-> "w", business_id |-> 1, price |-> 2,
                      buying_price |-> Some(2), quantity |-> 1],
                     [name |-> "g", business_id |-> 1, price |-> 2,
                      buying_price |-> None, quantity |-> 1] >>
    /\ orders = << [order_code |-> OrderCode(1), business_id |-> 1,
                    total_amount |-> 2] >>
    /\ sales = {[id |-> 1, order_id |-> 1, product_id |-> 1, quantity |-> 1,
                 total_price |-> 2, is_demo |-> FALSE]}
    /\ sales_next_id = 2
    /\ events = << [business_id |-> 1, event |-> "sell_product"] >>
    /\ threads = [t \in Threads |-> Idle]
    /\ res = [op |-> "init", status |-> "ok"]

NextSession == \/ Wait \/ Login \/ Suspend \/ Revoke
               \/ GetProducts \/ GetSalesItems \/ GetDashboard

SpecSession == InitSession /\ [][NextSession]_vars

\* Sessions that end with a logout: users log in, log out, and go on
\* presenting the token they held
NextLogout == \/ Wait \/ Login \/ Logout \/ GetProducts \/ GetSalesItems

SpecLogout == InitSession /\ [][NextLogout]_vars

Next == \/ NextAuth \/ NextShop \/ NextRegister \/ SalesReportPage
        \/ OnboardingStatus \/ NextRace \/ Logout
        \/ Wait \/ Revoke \/ GetDashboard

Spec == Init /\ [][Next]_vars

----------------------------------------------------------------------------
(***************************************************************************)
(* Properties.  The request a step handled is read from res' (the request  *)
(* and its response), the store before it from the unprimed variables.     *)
(***************************************************************************)

\* The step handles a record_sale request (every response carries the id of
\* the order it created, so no two responses of record_sale are equal).
SaleStep == res'.op = "record_sale" /\ res' # res

\* The step handles a login request.
LoginStep == res'.op = "login" /\ now' = now

\* The id of the product of business b called name in the catalog, 0 if none
PidOf(b, name) ==
    LET hits == {i \in DOMAIN products :
                    products[i].name = name /\ products[i].business_id = b}
    IN  IF hits = {} THEN 0 ELSE CHOOSE i \in hits : TRUE

\* Units of product p requested by the lines of its before line i
RECURSIVE TakenBefore(_, _, _, _)
TakenBefore(its, i, b, p) ==
    IF i <= 1 THEN 0
    ELSE TakenBefore(its, i - 1, b, p)
         + (IF PidOf(b, its[i - 1].product_name) = p
              THEN its[i - 1].quantity ELSE 0)

Found(its, i, b) == PidOf(b, its[i].product_name) # 0

\* What is left of the product of line i when the loop reaches line i
Remaining(its, i, b) ==
    LET p == PidOf(b, its[i].product_name)
    IN  products[p].quantity - TakenBefore(its, i, b, p)

Short(its, i, b) == Found(its, i, b) /\ its[i].quantity > Remaining(its, i, b)

Cheap(its, i, b) ==
    /\ Found(its, i, b)
    /\ LET bp == products[PidOf(b, its[i].product_name)].buying_price
       IN  bp # None /\ its[i].selling_price < bp[1]

LinePasses(its, i, b, demo) ==
    /\ Found(its, i, b)
    /\ demo \/ ~Short(its, i, b)
    /\ ~Cheap(its, i, b)

\* The first line that fails a check, 0 if every line passes
FirstBad(its, b, demo) ==
    LET bad == {i \in DOMAIN its : ~LinePasses(its, i, b, demo)}
    IN  IF bad = {} THEN 0 ELSE CHOOSE i \in bad : \A j \in bad : i <= j

NewSales == sales' \ sales

\* Every line of the request is stored as one new Sales row of the new order
LinesStored(its, b, demo) ==
    /\ Cardinality(NewSales) = Len(its)
    /\ \A i \in DOMAIN its : \E s \in NewSales :
          /\ s.id = sales_next_id + i - 1
          /\ s.order_id = res'.order_id
          /\ s.product_id = PidOf(b, its[i].product_name)
          /\ s.quantity = its[i].quantity
          /\ s.total_price = its[i].quantity * its[i].selling_price
          /\ s.is_demo = demo

\* Every product row is as before, less the units the request's lines took
StockDeducted(its, b) ==
    /\ DOMAIN products' = DOMAIN products
    /\ \A p \in DOMAIN products :
          products'[p] = [products[p] EXCEPT
                            !.quantity = @ - TakenBefore(its, Len(its) + 1, b, p)]

\* C1: a record_sale request that fails on a line item leaves no Order row
\* and no Sales row, and every product row and every stored Sales row is as
\* before the request.
C1_FailedSaleLeavesNothing ==
    [][(SaleStep /\ res'.status # "ok")
         => (orders' = orders /\ sales' = sales /\ products' = products)]_vars

\* C2: a successful real sale takes exactly the requested units from the
\* products its lines name and from no other product, and stores each line
\* with total_price = quantity * selling_price of the request.
C2_StockConservation ==
    [][(SaleStep /\ res'.status = "ok" /\ ~res'.is_demo)
         => /\ StockDeducted(res'.items, res'.business_id)
            /\ LinesStored(res'.items, res'.business_id, FALSE)]_vars

\* A real sale succeeded with a line stored at a price that is not the
\* catalog price, in a catalog of two products.
C2_Witness ==
    /\ res.op = "record_sale" /\ res.status = "ok" /\ ~res.is_demo
    /\ Len(products) = 2
    /\ \E s \in sales :
          /\ s.order_id = res.order_id
          /\ s.total_price # s.quantity * products[s.product_id].price
          /\ \E p \in DOMAIN products :
                p # s.product_id /\ products[p].business_id = res.business_id

\* C3: a real sale answers InsufficientStock exactly when the first line to
\* fail a check names a product of the caller and asks for more than what
\* the earlier lines of the order have left of it; a line asking for exactly
\* what is left passes and leaves 0; no sale takes a quantity below zero.
C3_InsufficientStock ==
    [][(SaleStep /\ ~res'.is_demo)
         => LET its == res'.items
                b   == res'.business_id
                fb  == FirstBad(its, b, FALSE)
            IN  /\ (res'.status = "insufficient_stock")
                      <=> (fb # 0 /\ Short(its, fb, b))
                /\ fb = 0 => res'.status = "ok"
                /\ res'.status = "ok" =>
                     \A i \in DOMAIN its :
                        (/\ its[i].quantity = Remaining(its, i, b)
                         /\ \A j \in DOMAIN its : j > i =>
                               its[j].product_name # its[i].product_name)
                        => products'[PidOf(b, its[i].product_name)].quantity = 0
                /\ (\A p \in DOMAIN products : products[p].quantity >= 0)
                     => \A p \in DOMAIN products' : products'[p].quantity >= 0]_vars

\* A real sale was rejected for stock on its second line, which asks for no
\* more than the product holds but for more than the first line left of it.
C3_Witness ==
    /\ res.op = "record_sale" /\ res.status = "insufficient_stock"
    /\ Len(res.items) = 2
    /\ res.items[1].product_name = res.items[2].product_name
    /\ \E p \in DOMAIN products :
          /\ products[p].name = res.items[2].product_name
          /\ products[p].business_id = res.business_id
          /\ res.items[2].quantity <= products[p].quantity
          /\ res.items[1].quantity <= products[p].quantity

\* The business had a non-demo Sales row before the step
HadRealSale(b) == \E s \in sales : ~s.is_demo /\ orders[s.order_id].business_id = b

\* C4: an onboarding request of a business without a non-demo sale is never
\* rejected for stock, succeeds when its lines name products of the caller
\* at or above their buying price, stores every line with is_demo = true and
\* changes no product; every other request is a real sale: is_demo = false,
\* stock checked and deducted.
C4_DemoBranch ==
    [][SaleStep
         => LET its == res'.items
                b   == res'.business_id
            IN  IF res'.is_onboarding /\ ~HadRealSale(b)
                  THEN /\ res'.is_demo
                       /\ res'.status # "insufficient_stock"
                       /\ products' = products
                       /\ (\A i \in DOMAIN its :
                              Found(its, i, b) /\ ~Cheap(its, i, b))
                            => res'.status = "ok"
                       /\ res'.status = "ok" => LinesStored(its, b, TRUE)
                  ELSE /\ ~res'.is_demo
                       /\ (\E i \in DOMAIN its :
                              /\ Short(its, i, b)
                              /\ \A j \in 1..(i - 1) : LinePasses(its, j, b, FALSE))
                            => res'.status = "insufficient_stock"
                       /\ res'.status = "ok"
                            => /\ LinesStored(its, b, FALSE)
                               /\ StockDeducted(its, b)]_vars

\* A demo sale succeeded with a line that asks for more than the stock.
C4_Witness ==
    /\ res.op = "record_sale" /\ res.status = "ok" /\ res.is_demo
    /\ \E s \in sales :
          /\ s.order_id = res.order_id /\ s.is_demo
          /\ s.quantity > products[s.product_id].quantity

\* Orders of business b that hold a demo Sales row
DemoOrders(b) ==
    {s.order_id : s \in {r \in sales : r.is_demo /\ SaleBusiness(r) = b}}

\* C5: after a real sale of business B is recorded, B has no demo Sales row
\* and none of its demo orders is left in table orders, and the products are
\* changed by nothing but the sale's own lines.
C5_DemoPurged ==
    [][(SaleStep /\ res'.status = "ok" /\ ~res'.is_demo)
         => LET b == res'.business_id
            IN  /\ \A s \in sales' :
                      orders'[s.order_id].business_id = b => ~s.is_demo
                /\ \A o \in DemoOrders(b) : \A k \in DOMAIN orders' :
                      orders'[k].order_code # orders[o].order_code
                /\ StockDeducted(res'.items, b)]_vars

\* C6: a request of a caller of business B2 returns, changes and deletes no
\* Product, Order or Sales row of another business; update_stock on a
\* product id of another business answers NotFound like an unknown id, and
\* record_sale on a name the caller's catalog lacks answers NotFound.
C6_TenantIsolation ==
    [][(res' # res /\ res'.op \in {"get_products", "update_stock",
                                  "record_sale", "get_sales_items"})
         => LET b == res'.business_id
            IN  /\ \A p \in DOMAIN products :
                      products[p].business_id # b
                        => p \in DOMAIN products' /\ products'[p] = products[p]
                /\ \A o \in DOMAIN orders :
                      orders[o].business_id # b
                        => o \in DOMAIN orders' /\ orders'[o] = orders[o]
                /\ {s \in sales : orders[s.order_id].business_id # b}
                     = {s \in sales' : orders'[s.order_id].business_id # b}
                /\ res'.op = "get_products"
                     => \A p \in res'.rows : products[p].business_id = b
                /\ res'.op = "get_sales_items"
                     => \A s \in res'.rows : orders[s.order_id].business_id = b
                /\ (/\ res'.op = "update_stock"
                    /\ \/ res'.product_id \notin DOMAIN products
                       \/ products[res'.product_id].business_id # b)
                     => res'.status = "not_found" /\ products' = products
                /\ res'.op = "record_sale"
                     => /\ ~Found(res'.items, 1, b) => res'.status = "not_found"
                        /\ (\E i \in DOMAIN res'.items : ~Found(res'.items, i, b))
                             => res'.status # "ok"]_vars

\* A caller was answered NotFound by update_stock for the id of a product
\* that exists in another business.
C6_Witness ==
    /\ res.op = "update_stock" /\ res.status = "not_found"
    /\ res.product_id \in DOMAIN products
    /\ products[res.product_id].business_id # res.business_id

\* C8: a request with a line below the buying price of its product is
\* rejected, real or demo, and with a price-floor violation when that line is
\* the first to fail and passes the stock check; selling at the buying price,
\* or a product without buying price, is no ground for rejection.
C8_SaleFloor ==
    [][SaleStep
         => LET its  == res'.items
                b    == res'.business_id
                demo == res'.is_demo
                fb   == FirstBad(its, b, demo)
            IN  /\ (\E i \in DOMAIN its : Cheap(its, i, b))
                     => res'.status # "ok"
                /\ (res'.status = "price_floor")
                     <=> (/\ fb # 0
                          /\ Cheap(its, fb, b)
                          /\ demo \/ ~Short(its, fb, b))
                /\ (\A i \in DOMAIN its :
                       /\ Found(its, i, b)
                       /\ demo \/ ~Short(its, i, b)
                       /\ LET bp == products[PidOf(b, its[i].product_name)].buying_price
                          IN  bp = None \/ its[i].selling_price >= bp[1])
                     => res'.status = "ok"]_vars

\* A demo sale was rejected for a line below the buying price.
C8_Witness ==
    /\ res.op = "record_sale" /\ res.status = "price_floor" /\ res.is_demo
    /\ \E i \in DOMAIN res.items, p \in DOMAIN products :
          /\ products[p].name = res.items[i].product_name
          /\ products[p].business_id = res.business_id
          /\ products[p].buying_price # None
          /\ res.items[i].selling_price < products[p].buying_price[1]

\* C9: every stored product with a buying price has price >= buying_price.
C9_PriceFloorInvariant ==
    \A p \in DOMAIN products :
       products[p].buying_price # None
         => products[p].price >= products[p].buying_price[1]

\* The user row a login request names, and the id of the Subscription row of
\* that user's business (0 if none) before the step
LoginUser == LET hits == {i \in DOMAIN users : users[i].username = res'.username}
             IN  users[CHOOSE i \in hits : \A j \in hits : i <= j]

LoginSub == LET hits == {i \in DOMAIN subscriptions :
                           subscriptions[i].business_id = LoginUser.business_id}
            IN  IF hits = {} THEN 0 ELSE CHOOSE i \in hits : \A j \in hits : i <= j

\* The step handles a login with valid credentials of a user who is not a
\* superadmin and whose business has a subscription.
GatedLogin ==
    /\ LoginStep
    /\ res'.status # "invalid"
    /\ LoginUser.role # "superadmin"
    /\ LoginSub # 0

\* C7: a valid login against a trial or active subscription with
\* end_date < now issues no token and leaves the subscription stored as
\* status expired, is_active false; with end_date >= now it issues a token
\* and leaves every subscription as it was.
C7_LazyExpiry ==
    [][(GatedLogin /\ subscriptions[LoginSub].status \in {"trial", "active"})
         => IF subscriptions[LoginSub].end_date < now
              THEN /\ res'.status = "expired"
                   /\ res'.token = None
                   /\ tokens' = tokens
                   /\ subscriptions' = [subscriptions EXCEPT ![LoginSub] =
                          [@ EXCEPT !.status = "expired", !.is_active = FALSE]]
              ELSE /\ res'.status = "ok"
                   /\ res'.token # None
                   /\ res'.token[1] \in tokens'
                   /\ subscriptions' = subscriptions]_vars

\* A login was blocked as expired and the stored subscription of the user's
\* business is expired and inactive.
C7_Witness ==
    /\ res.op = "login" /\ res.status = "expired" /\ res.token = None
    /\ \E u \in DOMAIN users, i \in DOMAIN subscriptions :
          /\ users[u].username = res.username
          /\ subscriptions[i].business_id = users[u].business_id
          /\ subscriptions[i].status = "expired"
          /\ ~subscriptions[i].is_active
          /\ subscriptions[i].end_date < now

\* C10: a valid login against a suspended subscription is blocked as
\* suspended, issues no token and leaves every subscription as it was,
\* whatever the end_date.
C10_SuspendedBlocked ==
    [][(GatedLogin /\ subscriptions[LoginSub].status = "suspended")
         => /\ res'.status = "suspended"
            /\ res'.token = None
            /\ tokens' = tokens
            /\ subscriptions' = subscriptions]_vars

\* A login was blocked as suspended although the end_date of the suspended
\* subscription has passed.
C10_Witness ==
    /\ res.op = "login" /\ res.status = "suspended" /\ res.token = None
    /\ \E u \in DOMAIN users, i \in DOMAIN subscriptions :
          /\ users[u].username = res.username
          /\ subscriptions[i].business_id = users[u].business_id
          /\ subscriptions[i].status = "suspended"
          /\ subscriptions[i].end_date < now

\* C11: a login with valid credentials by a user with role superadmin
\* succeeds and issues a token whatever the state of the subscriptions, the
\* superadmin having none of its own, and it leaves every Subscription row
\* as it was.
C11_SuperadminBypass ==
    [][(LoginStep /\ res'.status # "invalid" /\ LoginUser.role = "superadmin")
         => /\ res'.status = "ok"
            /\ res'.token # None
            /\ res'.token[1] \in tokens'
            /\ res'.token[1].role = "superadmin"
            /\ res'.token[1].exp = now + ACCESS_TOKEN_EXPIRE_MINUTES
            /\ subscriptions' = subscriptions]_vars

\* The superadmin logged in while one business was suspended and another
\* expired.
C11_Witness ==
    /\ res.op = "login" /\ res.status = "ok" /\ res.username = SuperName
    /\ res.token # None /\ res.token[1] \in tokens
    /\ \E i, j \in DOMAIN subscriptions :
          /\ subscriptions[i].status = "suspended"
          /\ subscriptions[j].status = "expired"

\* The catalog and sales routes
ShopRoutes == {"add_product", "get_products", "update_stock", "record_sale",
               "get_sales_items"}

\* C12: a request for a catalog or sales route that presents an issued
\* token is admitted, with the claims of the token, as long as the token is
\* not past its expiry (and not revoked), whatever has become of the
\* subscription since the login, and is turned away once the token is past
\* its expiry; no such request, admitted or turned away, changes a
\* Subscription row.
C12_GateOnlyAtLogin ==
    [][/\ \A tok \in tokens, a \in Accepts :
             (tok.exp >= now /\ tok \notin token_blacklist)
               => /\ Admission([token |-> Some(tok), accept |-> a]).status = "ok"
                  /\ Admission([token |-> Some(tok), accept |-> a]).user = tok
       /\ \A tok \in tokens, a \in Accepts :
             tok.exp < now
               => Admission([token |-> Some(tok), accept |-> a]).status # "ok"
       /\ (res' # res /\ res'.op = "rejected" /\ res'.route \in ShopRoutes
              /\ res'.token # None)
            => \/ res'.token[1].exp < now
               \/ res'.token[1] \in token_blacklist
       /\ (res' # res /\ \/ res'.op \in ShopRoutes
                         \/ res'.op = "rejected" /\ res'.route \in ShopRoutes)
            => subscriptions' = subscriptions]_vars

\* A token holder was served its catalog or its sales after the account was
\* suspended and the end_date of the subscription had passed.
C12_Witness ==
    /\ res.op \in {"get_products", "get_sales_items"} /\ res.status = "ok"
    /\ res.rows # {}
    /\ \E i \in DOMAIN subscriptions :
          /\ subscriptions[i].business_id = res.business_id
          /\ subscriptions[i].status = "suspended"
          /\ subscriptions[i].end_date < now

\* C13: a token stays in the revoked set for good, and from its revocation
\* on no request that presents it is served, on the routes that take their
\* user from verify_token and on the routes behind the middleware alone
\* (the dashboard), also while the token is signed and not expired.
C13_RevokedNeverAuthenticates ==
    [][/\ token_blacklist \subseteq token_blacklist'
       /\ \A tok \in token_blacklist, a \in Accepts :
             Admission([token |-> Some(tok), accept |-> a]).status # "ok"
       /\ (res' # res /\ res'.op = "get_dashboard"
              /\ res'.token \in token_blacklist)
            => res'.status # "ok"]_vars

\* C14: a request without a token for a catalog or sales route is answered
\* by a redirect to the login page when it is a browser navigation and by a
\* 401 when it asks for JSON; the route is not run: the response carries no
\* row and the store is as before.
C14_NoTokenUnauthenticated ==
    [][/\ \A a \in Accepts :
             Admission([token |-> None, accept |-> a]).status # "ok"
       /\ (res' # res /\ res'.op = "rejected" /\ res'.token = None)
            => /\ res'.route \in ShopRoutes
               /\ res'.status = IF res'.accept = "text/html"
                                  THEN "redirect" ELSE "401"
               /\ DOMAIN res' = {"op", "route", "status", "token", "accept"}
               /\ UNCHANGED <<now, authVars, shopVars>>]_vars

\* A sale posted without a token by a client that accepts JSON among other
\* types was answered 401, with orders and sales on record.
C14_Witness ==
    /\ res.op = "rejected" /\ res.route = "record_sale" /\ res.token = None
    /\ res.accept = "application/json, text/plain, */*"
    /\ res.status = "401"
    /\ orders # << >> /\ sales # {}

\* The number a sequence of decimal digits denotes
RECURSIVE DigitsValue(_)
DigitsValue(ds) ==
    IF ds = << >> THEN 0
    ELSE 10 * DigitsValue(SubSeq(ds, 1, Len(ds) - 1)) + ds[Len(ds)]

\* Order numbers around the width of the format
CodeSamples == {1, 9, 10, 99999, 100000, 100001}

\* C15: with one record_sale request at a time, the orders on record carry
\* pairwise different codes, and the number in the code of a later order is
\* greater than that of every earlier order, whether the orders come from
\* real, demo or rejected sales and whichever business they belong to; the
\* format keeps different numbers apart, also past five digits.
C15_OrderCodes ==
    /\ \A n, m \in CodeSamples :
          /\ DigitsValue(OrderCode(n).digits) = n
          /\ n # m => OrderCode(n) # OrderCode(m)
    /\ \A i \in DOMAIN orders : orders[i].order_code.prefix = "ORD-"
    /\ \A i, j \in DOMAIN orders :
          i < j => /\ orders[i].order_code # orders[j].order_code
                   /\ DigitsValue(orders[i].order_code.digits)
                        < DigitsValue(orders[j].order_code.digits)

\* Two businesses have an order each, the first from a rejected sale and
\* the second from a demo sale.
C15_Witness ==
    /\ Len(orders) = 2
    /\ orders[1].business_id # orders[2].business_id
    /\ ~\E s \in sales : s.order_id = 1
    /\ \E s \in sales : s.order_id = 2 /\ s.is_demo

----------------------------------------------------------------------------
\* The four subscription routes of the superadmin console
SubscriptionRoutes == {"activate", "renew", "suspend", "reactivate"}

\* C16: each of activate, renew, suspend and reactivate for business B is
\* either rejected (403 when the caller is not a superadmin, 404 when B has
\* no subscription) and leaves every Subscription row as it was, or changes
\* B's row and no other: activate makes it active until now + 30 days, renew
\* makes it active until its previous end_date + 30 days, suspend makes it
\* suspended, reactivate makes it active and keeps its end_date.
C16_ConsoleFrame ==
    [][ (res'.op \in SubscriptionRoutes /\ now' = now) =>
          LET B       == res'.business_id
              isSuper == /\ res'.user_id \in DOMAIN users
                         /\ users[res'.user_id].role = "superadmin"
              rows    == {i \in DOMAIN subscriptions :
                             subscriptions[i].business_id = B}
          IN
          /\ res'.status \in {"forbidden", "not_found", "ok"}
          /\ (res'.status = "forbidden") <=> ~isSuper
          /\ (res'.status = "not_found") <=> (isSuper /\ rows = {})
          /\ res'.status # "ok" => subscriptions' = subscriptions
          /\ res'.status = "ok" =>
               /\ Cardinality(rows) = 1
               /\ DOMAIN subscriptions' = DOMAIN subscriptions
               /\ \A i \in DOMAIN subscriptions \ rows :
                     subscriptions'[i] = subscriptions[i]
               /\ \A i \in rows :
                     LET old == subscriptions[i]
                         new == subscriptions'[i]
                     IN
                     /\ new.business_id = B
                     /\ res'.op = "activate" =>
                          /\ new.status = "active"
                          /\ new.end_date = now + 30 * Day
                     /\ res'.op = "renew" =>
                          /\ new.status = "active"
                          /\ new.end_date = old.end_date + 30 * Day
                     /\ res'.op = "suspend" =>
                          new.status = "suspended"
                     /\ res'.op = "reactivate" =>
                          /\ new.status = "active"
                          /\ new.end_date = old.end_date
      ]_vars

\* A renewal went through while another business holds a subscription of its
\* own, and the renewed row does not end 30 days from now
C16_Witness ==
    /\ res.op = "renew"
    /\ res.status = "ok"
    /\ Len(subscriptions) = 2
    /\ \E i, j \in DOMAIN subscriptions :
          /\ subscriptions[i].business_id = res.business_id
          /\ subscriptions[i].status = "active"
          /\ subscriptions[i].end_date # now + RenewDays * Day
          /\ subscriptions[j].business_id # res.business_id
          /\ subscriptions[j].status = "trial"

----------------------------------------------------------------------------
\* No request is in progress
Quiescent == \A t \in Threads : threads[t] = Idle

\* C17: after any sequence or interleaving of registration requests, every
\* stored Business has exactly one Subscription and an admin User (a
\* registration that succeeds creates the three rows, one that is rejected
\* creates none).
C17_RegistrationInvariant ==
    Quiescent =>
       \A b \in DOMAIN business :
          /\ Cardinality({i \in DOMAIN subscriptions :
                             subscriptions[i].business_id = b}) = 1
          /\ \E i \in DOMAIN users : /\ users[i].business_id = b
                                     /\ users[i].role = "admin"

----------------------------------------------------------------------------
\* The onboarding events the routes log
LoggedEvents == {"view_report", "sell_product"}

\* The number of rows table onboarding_events will hold for business b and
\* event e after the step
EventRowsAfter(b, e) ==
    Cardinality({i \in DOMAIN events' :
                    events'[i].business_id = b /\ events'[i].event = e})

\* C18: recording an event any number of times for one business, in any
\* order with other operations, leaves exactly one row of that business and
\* event: the sales report page answers and leaves one view_report row of
\* the caller's business whether or not a row was there before, a sale that
\* succeeds leaves one sell_product row, no step adds a second row or takes
\* a row away, and once the view_report row is there the checklist of the
\* business reports view_report.
C18_RecordEventIdempotent ==
    [][ /\ \A b \in DOMAIN business, e \in LoggedEvents :
              /\ EventRowsAfter(b, e) <= 1
              /\ EventRows(b, e) # {} => EventRowsAfter(b, e) = 1
        /\ (res'.op = "sales_report_page" /\ res' # res) =>
              /\ res'.status = "ok"
              /\ EventRowsAfter(res'.business_id, "view_report") = 1
        /\ (SaleStep /\ res'.status = "ok") =>
              EventRowsAfter(res'.business_id, "sell_product") = 1
        /\ (/\ res'.op = "onboarding_status"
            /\ res' # res
            /\ EventRows(res'.business_id, "view_report") # {}) =>
              /\ res'.status = "ok"
              /\ res'.steps.view_report = TRUE
      ]_vars

\* A business that has no order opened its sales report, sold nothing since,
\* and its checklist reports view_report
C18_Witness ==
    /\ res.op = "onboarding_status"
    /\ res.status = "ok"
    /\ res.steps.view_report = TRUE
    /\ ~has_sale(res.business_id)
    /\ Cardinality(EventRows(res.business_id, "view_report")) = 1
    /\ Len(events) >= 2

----------------------------------------------------------------------------
\* C19: the checklist of business B reports sell_product exactly when a
\* sell_product event was recorded for B or B has at least one non-demo
\* sale; a business whose sale requests were all rejected reports false.
C19_SellProductStep ==
    (res.op = "onboarding_status" /\ res.status = "ok") =>
       (res.steps.sell_product <=>
           \/ EventRows(res.business_id, "sell_product") # {}
           \/ has_real_sale(res.business_id))

----------------------------------------------------------------------------
\* The real Sales rows of product p
RealRows(p) == {s \in sales : s.product_id = p /\ ~s.is_demo}

\* C20: nothing serializes sales.  A request that has passed the stock check
\* completes successfully whatever the other thread has committed since:
\* its commit stores its Sales rows and sets each product it sold to the
\* quantity it computed from the stock it read.  Two requests for the last
\* unit that both pass the check before either commits therefore both
\* succeed, and the units sold exceed the stock there was.
C20_LostUpdate ==
    [][ \A t \in Threads :
           (threads[t].pc = "commit" /\ threads'[t] = Idle) =>
              LET my == threads[t] IN
              /\ res'.op = "record_sale"
              /\ res'.status = "ok"
              /\ res'.order_id = my.order_id
              /\ Cardinality(sales') = Cardinality(sales) + Len(my.rows)
              /\ \A k \in DOMAIN my.rows :
                    \E s \in sales' \ sales :
                       /\ s.order_id = my.order_id
                       /\ s.product_id = my.rows[k].product_id
                       /\ s.quantity = my.rows[k].quantity
              /\ \A i \in DOMAIN products :
                    products'[i].quantity =
                       IF i \in DOMAIN my.quantity
                         THEN my.quantity[i]
                         ELSE products[i].quantity
              /\ \A u \in Threads \ {t} :
                    (threads[u].pc = "commit"
                       /\ \E i \in DOMAIN my.quantity :
                             i \in DOMAIN threads[u].quantity)
                      => threads'[u] = threads[u]
      ]_vars

\* Both requests for the last unit of a product have completed (every
\* product starts with one unit): two real Sales rows of one unit each, from
\* two orders with their totals, and the quantity left is 0
C20_Witness ==
    /\ Quiescent
    /\ \E p \in DOMAIN products :
          /\ products[p].quantity = 0
          /\ Cardinality(RealRows(p)) = 2
          /\ \A s \in RealRows(p) :
                /\ s.quantity = 1
                /\ orders[s.order_id].total_amount = s.total_price
          /\ Cardinality({s.order_id : s \in RealRows(p)}) = 2

----------------------------------------------------------------------------
\* The sum of total_price over a set of Sales rows
RECURSIVE SumOfLines(_)
SumOfLines(rows) ==
    IF rows = {} THEN 0
    ELSE LET s == CHOOSE x \in rows : TRUE
         IN  s.total_price + SumOfLines(rows \ {s})

\* C21: after any sequence of record_sale requests (real, demo, rejected,
\* and real sales that purge earlier demo lines) the total_amount of every
\* stored order is the sum of total_price over the Sales rows of the order.
C21_TotalIsSumOfLines ==
    \A i \in DOMAIN orders :
       orders[i].total_amount = SumOfLines({s \in sales : s.order_id = i})

----------------------------------------------------------------------------
\* C22: through registration, login, activate, renew, suspend and
\* reactivate, every Subscription has is_active true exactly when its status
\* is trial or active, and false when it is expired or suspended.
C22_IsActiveFollowsStatus ==
    \A i \in DOMAIN subscriptions :
       /\ subscriptions[i].status \in {"trial", "active", "expired",
                                       "suspended"}
       /\ subscriptions[i].is_active
             <=> subscriptions[i].status \in {"trial", "active"}

\* One business was suspended by the superadmin, the other expired at a
\* login
C22_Witness ==
    \E i, j \in DOMAIN subscriptions :
       /\ subscriptions[i].status = "suspended"
       /\ ~subscriptions[i].is_active
       /\ subscriptions[j].status = "expired"
       /\ ~subscriptions[j].is_active

----------------------------------------------------------------------------
\* C23: once the subscription of a business is expired, every login with
\* valid credentials by a user of the business is blocked and issues no
\* token, as long as no superadmin has activated, renewed or reactivated the
\* subscription; so is the login that follows the one which made the
\* subscription expired.
C23_ExpiredStaysBlocked ==
    [][(GatedLogin /\ subscriptions[LoginSub].status = "expired")
         => /\ res'.status # "ok"
            /\ res'.token = None
            /\ tokens' = tokens]_vars

----------------------------------------------------------------------------
\* C24: in every state, whatever the interleaving of the record_sale
\* requests of a business in progress at once (one marked onboarding, one
\* not), no business has a Sales row with is_demo true and a Sales row with
\* is_demo false at the same time.
C24_NoDemoBesideReal ==
    \A b \in DOMAIN business :
       ~ /\ \E s \in sales : SaleBusiness(s) = b /\ s.is_demo
         /\ \E s \in sales : SaleBusiness(s) = b /\ ~s.is_demo

----------------------------------------------------------------------------
\* C25: after a user logs out, the token the session held is in the revoked
\* set, and a later request presenting that token fails authentication
\* before the token's expiry: the catalog or sales request that follows the
\* logout, made while the logged-out token is the only token in existence
\* and not yet expired, is not served.
C25_LogoutRevokes ==
    [][ /\ (res'.op = "logout" /\ res' # res) =>
              res'.token[1] \in token_blacklist'
        /\ (/\ res.op = "logout"
            /\ tokens = {res.token[1]}
            /\ res.token[1].exp >= now
            /\ res'.op \in {"get_products", "get_sales_items"}) =>
              res'.status # "ok"
      ]_vars

============================================================================
